---- MODULE Spec2Model ----
(***************************************************************************)
(* Real-time notification delivery of the productivity-app backend:        *)
(*   app/services/manager.py      ConnectionManager (the registry)         *)
(*   app/routers/websocket.py     websocket_endpoint (one per connection)  *)
(*   app/routers/tasks.py         assign / unassign + notify_if_needed     *)
(*   app/routers/events.py        assign / unassign + notify_if_needed     *)
(*   app/routers/invite.py        invite_by_email                          *)
(*   app/routers/notifications.py get_unread_notifications_count,          *)
(*                                notification_respond                     *)
(*   app/services/notifications/cleanup.py  delete_old_notifications       *)
(*                                                                         *)
(* The server is one asyncio event loop.  A coroutine runs without         *)
(* interruption from one await to the next, so an action of this module    *)
(* is "complete the awaited I/O, then run the handler's code up to its     *)
(* next await".  The stable values of pc are the awaits of the source;     *)
(* the code between two awaits is interpreted by Run.                      *)
(*                                                                         *)
(* What is taken from the libraries the code runs on:                      *)
(*   - every await of the source (accept, close, send_json, receive_json)  *)
(*     is a point where other coroutines may run;                          *)
(*   - WebSocket.close marks the socket closed when it is called; a close  *)
(*     of a socket closed already, or whose peer is gone, raises;          *)
(*   - send_json raises unless, when it completes, the socket is accepted  *)
(*     and its peer there;                                                 *)
(*     messages sent on one socket arrive in the order of the calls;       *)
(*     accept raises unless the socket is still in its handshake;          *)
(*     receive_json raises at once on a socket that is not connected;      *)
(*   - Session(autoflush=False): a query does not see rows that were only  *)
(*     added; commit writes all pending changes or none; each query reads  *)
(*     what is committed;                                                  *)
(*   - get_time_stamp returns a later time on every later call;            *)
(*   - the BackgroundScheduler of main.py runs delete_old_notifications    *)
(*     in a thread of its own; session.delete followed by commit deletes   *)
(*     each selected row by its primary key.                               *)
(***************************************************************************)
EXTENDS Integers, Sequences, FiniteSets, TLC

\* ---------------------------------------------------------------- bounds
NumConns == 2       \* inbound websocket connections in a run
NumSlots == 2       \* HTTP requests that may be in flight together
MaxEvents == 3      \* things the outside world does in a run: a connection
                    \* opened, a frame sent, a peer gone, an HTTP request

\* ------------------------------------------------------ program constants
WS_1008_POLICY_VIOLATION == 1008
WS_1000_NORMAL_CLOSURE == 1000

\* ------------------------------------------------------------- universes
Conns == 1..NumConns                    \* WebSocket objects; handler of c is process c
HttpProcs == (NumConns + 1)..(NumConns + NumSlots)
Procs == Conns \cup HttpProcs
NoConn == 0
NoSet == 0
NoUser == "none"
UserIds == {"u1", "u2"}

\* sec-websocket-protocol header values a client may present
\* (a comma separated list, here a sequence); NoToken is Python's None
NoToken == "none"
Headers == {<<>>, <<"tok_u1">>, <<"tok_u2", "chat">>, <<"tok_noid">>, <<"tok_bad">>}

\* the fixed part of the relational data: team1 (members u1 and u2, the
\* latter a viewer) owns the task, team2 (only u1 is a member) owns the event
TaskIds == {<<"t", 1>>}
EventIds == {<<"e", 1>>}
TeamIds == {"team1", "team2"}
MemberIds == {"m1", "m2", "m3"}
MemberUser == [m \in MemberIds |-> IF m = "m2" THEN "u2" ELSE "u1"]
MemberTeam == [m \in MemberIds |-> IF m = "m3" THEN "team2" ELSE "team1"]
MemberRole == [m \in MemberIds |-> IF m = "m2" THEN "viewer" ELSE "owner"]
ObjTeam(obj) == IF obj[1] = "t" THEN "team1" ELSE "team2"
ObjTitle(obj) == IF obj[1] = "t" THEN "title_t" ELSE "title_e"
Emails == {"u1", "u2"}                 \* an email is named after its user
UserByEmail(email) == IF email \in UserIds THEN email ELSE NoUser

VARIABLES
    active_connections,   \* user id -> id of the set object holding its sockets
                          \* (NoSet: the dict has no such key)
    conn_sets,            \* heap of the set objects: set id -> set of sockets
    socket_to_user,       \* socket -> user id (NoUser: the dict has no such key)
    sock,                 \* transport state of each socket
    inbox,                \* messages each client has received, in order
    sendq,                \* per socket: the handlers awaiting a send_json on it,
                          \* in the order of their calls
    links,                \* committed TaskMemberLink / EventMemberLink rows
    notifications,        \* committed Notification rows
    invites,              \* committed Invite rows
    now,                  \* the clock read by get_time_stamp
    next_id,              \* next fresh row id (uuid4)
    events,               \* what the outside world has done so far (a count)
    proc,                 \* per handler: position and local variables
    sweep                 \* the scheduler thread running delete_old_notifications

vars == <<active_connections, conn_sets, socket_to_user, sock, inbox, sendq, links,
          notifications, invites, now, next_id, events, proc, sweep>>

\* The whole state as one value, so that the code between two awaits can be
\* written as a function from state to state.
Cur ==
    [ac |-> active_connections, sets |-> conn_sets, s2u |-> socket_to_user,
     sock |-> sock, inbox |-> inbox, sendq |-> sendq, links |-> links,
     notifs |-> notifications,
     invites |-> invites, now |-> now, next_id |-> next_id,
     events |-> events, proc |-> proc, sweep |-> sweep]

Becomes(s) ==
    /\ active_connections' = s.ac
    /\ conn_sets' = s.sets
    /\ socket_to_user' = s.s2u
    /\ sock' = s.sock
    /\ inbox' = s.inbox
    /\ sendq' = s.sendq
    /\ links' = s.links
    /\ notifications' = s.notifs
    /\ invites' = s.invites
    /\ now' = s.now
    /\ next_id' = s.next_id
    /\ events' = s.events
    /\ proc' = s.proc
    /\ sweep' = s.sweep

NoMsg == [type |-> "none", msg |-> "", count |-> 0]
NoRow ==
    [id |-> 0, user_id |-> NoUser, sender_id |-> NoUser, object_type |-> "none",
     object_id |-> <<"none", 0>>, message |-> <<>>, is_read |-> FALSE,
     created_at |-> 0, updated_at |-> 0]
NoInvite == [id |-> <<"none", 0>>, email |-> "none", team_id |-> "none", invited_by |-> NoUser]

\* A handler that has not started.  kind: "ws" or the request kind.
\* su_*: frame of send_to_user; d_*: frame of disconnect; the rest are the
\* handler's own locals.  snap/failed/sent/su_status/pushed/recorded/committed/
\* raced only record what the handler did: the sockets of the snapshot, those
\* whose send raised, those a send was completed on (in order), how the call
\* ended, the count pushed, the unread count when the rows were committed, the
\* requests that were in flight when this one arrived.  b_todo is the frame of
\* broadcast (the keys still to visit); b_start/b_sent/b_failed record the
\* sockets registered when it started, those it delivered on, those whose
\* send raised.
IdleProc ==
    [pc |-> "idle", kind |-> "none",
     su_user |-> NoUser, su_msg |-> NoMsg, su_todo |-> <<>>, su_cur |-> NoConn,
     su_status |-> "none", snap |-> {}, failed |-> {}, sent |-> <<>>,
     d_ws |-> NoConn, d_user |-> NoUser, d_conns |-> NoSet, d_from |-> "none",
     actor |-> NoUser, rcpt |-> NoUser, act |-> "none", obj |-> <<"none", 0>>,
     member |-> "none", raced |-> {},
     b_todo |-> <<>>, b_start |-> {}, b_sent |-> {}, b_failed |-> {},
     pend |-> NoRow, pend_inv |-> NoInvite,
     token |-> NoToken, queries |-> 0,
     pushed |-> -1, recorded |-> -1, committed |-> FALSE]

\* state, code, subprotocol: what the transport did; gone: the peer left;
\* header: what the client presented; close_err: a close of it raised;
\* redisc: disconnect was called on it while it was not registered
\* The scheduler thread between two runs of the job.  old: the rows its select
\* returned; cutoff, deleted, failed record what its last run did.
IdleSweep == [pc |-> "idle", old |-> {}, cutoff |-> 0, deleted |-> {}, failed |-> FALSE]

IdleSock == [state |-> "new", gone |-> FALSE, code |-> 0, subprotocol |-> NoToken,
             header |-> <<>>, close_err |-> FALSE, redisc |-> FALSE]

Init ==
    /\ active_connections = [u \in UserIds |-> NoSet]
    /\ conn_sets = [i \in Conns |-> {}]
    /\ socket_to_user = [c \in Conns |-> NoUser]
    /\ sock = [c \in Conns |-> IdleSock]
    /\ inbox = [c \in Conns |-> <<>>]
    /\ sendq = [c \in Conns |-> <<>>]
    /\ links = {}
    /\ notifications = {}
    /\ invites = {}
    /\ now = 1
    /\ next_id = 1
    /\ events = 0
    /\ proc = [p \in Procs |-> IdleProc]
    /\ sweep = IdleSweep

\* ------------------------------------------------------------ pure helpers
SetPc(s, p, l) == [s EXCEPT !.proc[p].pc = l]

\* A handler ends: its result stays readable, its frames are dropped.
Finish(s, p, l) ==
    [s EXCEPT !.proc[p].pc = l, !.proc[p].su_todo = <<>>, !.proc[p].su_cur = NoConn,
              !.proc[p].d_ws = NoConn, !.proc[p].d_user = NoUser,
              !.proc[p].d_conns = NoSet, !.proc[p].d_from = "none"]

\* a lookup that returns the sockets of every user
ConnsOfEveryone(s, user_id) ==
    UNION {s.sets[s.ac[u]] : u \in {v \in UserIds : s.ac[v] # NoSet}}

\* self.active_connections.get(user_id, set())
ConnsOf(s, user_id) == IF s.ac[user_id] = NoSet THEN {} ELSE s.sets[s.ac[user_id]]

\* ConnectionManager._get_token_from_headers: the first sub-protocol, or None
get_token_from_headers(header) == IF header = <<>> THEN NoToken ELSE Head(header)

\* a decoder that checks neither signature nor expiry
decode_unverified(token) ==
    CASE token = "tok_u1" -> [decoded |-> TRUE, id |-> "u1"]
      [] token = "tok_u2" -> [decoded |-> TRUE, id |-> "u2"]
      [] token = "tok_bad" -> [decoded |-> TRUE, id |-> "u1"]
      [] token = "tok_noid" -> [decoded |-> TRUE, id |-> NoUser]
      [] OTHER -> [decoded |-> FALSE, id |-> NoUser]

\* verify_jwt_token: the decoded payload, or None on a JWTError
verify_jwt_token(token) ==
    CASE token = "tok_u1" -> [decoded |-> TRUE, id |-> "u1"]
      [] token = "tok_u2" -> [decoded |-> TRUE, id |-> "u2"]
      [] token = "tok_noid" -> [decoded |-> TRUE, id |-> NoUser]
      [] OTHER -> [decoded |-> FALSE, id |-> NoUser]

\* the try block of connect: the user id, or NoUser when it raised
AuthUser(token) ==
    LET payload == verify_jwt_token(token)
    IN  IF payload.decoded THEN payload.id ELSE NoUser

\* a count that takes the read rows too
count_rows_of_user(rows, user_id) ==
    Cardinality({n \in rows : n.user_id = user_id})

\* a count that forgets whose rows it counts
count_unread_of_anyone(rows, user_id) ==
    Cardinality({n \in rows : ~n.is_read})

get_unread_notifications_count(rows, user_id) ==
    Cardinality({n \in rows : n.user_id = user_id /\ ~n.is_read})

\* ------------------------------------------------------------- transport
\* websocket.close(code): the socket stops carrying frames when close is
\* called; closing a socket that is closed already, or whose peer is gone,
\* raises.
ws_close(sk, code) ==
    [sk EXCEPT !.state = "closed",
               !.code = IF sk.state = "closed" THEN sk.code ELSE code,
               !.close_err = sk.close_err \/ sk.state = "closed" \/ sk.gone]

\* conn.send_json succeeds on an accepted socket whose peer is still there
CanSend(sk) == sk.state = "open" /\ ~sk.gone

\* websocket.accept succeeds on a socket still in its handshake
CanAccept(sk) == sk.state = "connecting" /\ ~sk.gone

\* ----------------------------------------------------- ConnectionManager
\* a registration that forgets the reverse map
register_forward_only(s, websocket, user_id) ==
    LET s1 == IF s.ac[user_id] = NoSet
              THEN [s EXCEPT !.ac[user_id] = websocket, !.sets[websocket] = {}]
              ELSE s
    IN  [s1 EXCEPT !.sets[s1.ac[user_id]] = @ \cup {websocket}]

\* connect, lines 62-66: register the socket in both maps
register(s, websocket, user_id) ==
    LET s1 == IF s.ac[user_id] = NoSet
              THEN [s EXCEPT !.ac[user_id] = websocket, !.sets[websocket] = {}]
              ELSE s
    IN  [s1 EXCEPT !.sets[s1.ac[user_id]] = @ \cup {websocket},
                   !.s2u[websocket] = user_id]

\* connect up to its await: close(1008) on a bad credential, accept otherwise
connect(s, p, websocket, header) ==
    LET token == get_token_from_headers(header)
        user_id == AuthUser(token)
        s1 == [s EXCEPT !.events = @ + 1, !.proc[p].kind = "ws",
                        !.proc[p].token = IF user_id = NoUser THEN NoToken ELSE token,
                        !.sock[websocket].state = "connecting",
                        !.sock[websocket].header = header]
    IN  IF user_id = NoUser
        THEN [s1 EXCEPT !.proc[p].pc = "auth_close",
                        !.sock[websocket] = ws_close(@, WS_1008_POLICY_VIOLATION)]
        ELSE SetPc(register(s1, websocket, user_id), p, "accept")

\* a disconnect that raises on a socket it does not know
disconnect_strict(s, p, websocket, from) ==
    LET user_id == s.s2u[websocket]
        s1 == [s EXCEPT !.proc[p].d_ws = websocket, !.proc[p].d_user = user_id,
                        !.proc[p].d_from = from, !.proc[p].d_conns = NoSet]
    IN  IF user_id = NoUser
        THEN SetPc([s1 EXCEPT !.sock[websocket].redisc = TRUE], p, "d_exc")
        ELSE LET sid == s.ac[user_id]
             IN  IF sid # NoSet /\ websocket \in s.sets[sid]
                 THEN [s1 EXCEPT !.proc[p].pc = "close", !.proc[p].d_conns = sid,
                                 !.sock[websocket] = ws_close(@, WS_1000_NORMAL_CLOSURE)]
                 ELSE SetPc([s1 EXCEPT !.s2u[websocket] = NoUser], p, "d_ret")

\* a disconnect that drops the reverse entry before it awaits the close
disconnect_unmap_first(s, p, websocket, from) ==
    LET user_id == s.s2u[websocket]
        s1 == [s EXCEPT !.proc[p].d_ws = websocket, !.proc[p].d_user = user_id,
                        !.proc[p].d_from = from, !.proc[p].d_conns = NoSet]
    IN  IF user_id = NoUser
        THEN SetPc([s1 EXCEPT !.sock[websocket].redisc = TRUE], p, "d_ret")
        ELSE LET sid == s.ac[user_id]
             IN  IF sid # NoSet /\ websocket \in s.sets[sid]
                 THEN [s1 EXCEPT !.proc[p].pc = "close", !.proc[p].d_conns = sid,
                                 !.s2u[websocket] = NoUser,
                                 !.sock[websocket] = ws_close(@, WS_1000_NORMAL_CLOSURE)]
                 ELSE SetPc([s1 EXCEPT !.s2u[websocket] = NoUser], p, "d_ret")

\* disconnect up to its await (lines 72-78), or to its end when nothing is awaited
disconnect(s, p, websocket, from) ==
    LET user_id == s.s2u[websocket]
        s1 == [s EXCEPT !.proc[p].d_ws = websocket, !.proc[p].d_user = user_id,
                        !.proc[p].d_from = from, !.proc[p].d_conns = NoSet]
    IN  IF user_id = NoUser
        THEN SetPc([s1 EXCEPT !.sock[websocket].redisc = TRUE], p, "d_ret")
        ELSE LET sid == s.ac[user_id]
             IN  IF sid # NoSet /\ websocket \in s.sets[sid]
                 THEN [s1 EXCEPT !.proc[p].pc = "close", !.proc[p].d_conns = sid,
                                 !.sock[websocket] = ws_close(@, WS_1000_NORMAL_CLOSURE)]
                 ELSE SetPc([s1 EXCEPT !.s2u[websocket] = NoUser], p, "d_ret")

\* a disconnect that leaves the user's key in place when its set is emptied
disconnect_resume_keep_key(s, p) ==
    LET websocket == s.proc[p].d_ws
        sid == s.proc[p].d_conns
    IN  IF websocket \notin s.sets[sid]
        THEN SetPc(s, p, "d_exc")
        ELSE SetPc([s EXCEPT !.sets[sid] = @ \ {websocket},
                             !.s2u[websocket] = NoUser], p, "d_ret")

\* disconnect after its await (lines 79-86); conns is the set object read
\* before the await; set.remove and del raise KeyError on a missing element
disconnect_resume(s, p) ==
    LET websocket == s.proc[p].d_ws
        user_id == s.proc[p].d_user
        sid == s.proc[p].d_conns
    IN  IF websocket \notin s.sets[sid]
        THEN SetPc(s, p, "d_exc")
        ELSE LET s1 == [s EXCEPT !.sets[sid] = @ \ {websocket}]
             IN  IF s1.sets[sid] = {} /\ s1.ac[user_id] = NoSet
                 THEN SetPc(s1, p, "d_exc")
                 ELSE LET s2 == IF s1.sets[sid] = {}
                                THEN [s1 EXCEPT !.ac[user_id] = NoSet]
                                ELSE s1
                      IN  IF s2.s2u[websocket] = NoUser
                          THEN SetPc(s2, p, "d_exc")
                          ELSE SetPc([s2 EXCEPT !.s2u[websocket] = NoUser], p, "d_ret")

\* a fan-out that indexes the dict and so raises for a user without entry
send_to_user_strict(s, p, user_id, message, ord) ==
    LET conns == ConnsOf(s, user_id)
    IN  [s EXCEPT !.proc[p].su_user = user_id,
                  !.proc[p].su_msg = message,
                  !.proc[p].su_todo = SelectSeq(ord, LAMBDA c : c \in conns),
                  !.proc[p].su_cur = NoConn,
                  !.proc[p].su_status = IF s.ac[user_id] = NoSet THEN "raised"
                                        ELSE "running",
                  !.proc[p].snap = conns,
                  !.proc[p].failed = {},
                  !.proc[p].sent = <<>>,
                  !.proc[p].pushed = message.count,
                  !.proc[p].pc = IF s.ac[user_id] = NoSet THEN "su_exc" ELSE "su_next"]

\* send_to_user, lines 89-90: snapshot the user's sockets; ord is the order
\* in which list(conns) happens to enumerate the set
send_to_user(s, p, user_id, message, ord) ==
    LET conns == ConnsOf(s, user_id)
    IN  [s EXCEPT !.proc[p].su_user = user_id,
                  !.proc[p].su_msg = message,
                  !.proc[p].su_todo = SelectSeq(ord, LAMBDA c : c \in conns),
                  !.proc[p].su_cur = NoConn,
                  !.proc[p].su_status = "running",
                  !.proc[p].snap = conns,
                  !.proc[p].failed = {},
                  !.proc[p].sent = <<>>,
                  !.proc[p].pushed = message.count,
                  !.proc[p].pc = "su_next"]

\* the head of the for loop: the next socket, or return
send_next(s, p) ==
    IF s.proc[p].su_todo = <<>>
    THEN [s EXCEPT !.proc[p].pc = "su_ret", !.proc[p].su_status = "returned",
                   !.proc[p].su_cur = NoConn]
    ELSE [s EXCEPT !.proc[p].pc = "send", !.proc[p].su_cur = Head(s.proc[p].su_todo),
                   !.proc[p].su_todo = Tail(s.proc[p].su_todo),
                   !.sendq[Head(s.proc[p].su_todo)] = Append(@, p)]

\* a fan-out that skips a failing socket without removing it
send_resume_skip(s, p) ==
    LET conn == s.proc[p].su_cur
    IN  IF s.sock[conn].state = "open" /\ ~s.sock[conn].gone
        THEN SetPc([s EXCEPT !.inbox[conn] = Append(@, s.proc[p].su_msg),
                             !.sendq[conn] = SelectSeq(@, LAMBDA q : q # p),
                             !.proc[p].sent = Append(@, conn)], p, "su_next")
        ELSE SetPc([s EXCEPT !.proc[p].failed = @ \cup {conn},
                             !.sendq[conn] = SelectSeq(@, LAMBDA q : q # p)], p, "su_next")

\* the awaited conn.send_json completes: delivered, or the except branch
send_resume(s, p) ==
    LET conn == s.proc[p].su_cur
        s1 == [s EXCEPT !.sendq[conn] = SelectSeq(@, LAMBDA q : q # p)]
    IN  IF CanSend(s.sock[conn])
        THEN SetPc([s1 EXCEPT !.inbox[conn] = Append(@, s.proc[p].su_msg),
                              !.proc[p].sent = Append(@, conn)], p, "su_next")
        ELSE disconnect([s1 EXCEPT !.proc[p].failed = @ \cup {conn}], p, conn, "send")

\* disconnect returns to its caller / raises into its caller
disconnect_return(s, p) ==
    IF s.proc[p].d_from = "send" THEN SetPc(s, p, "su_next") ELSE Finish(s, p, "done")

disconnect_raise(s, p) ==
    IF s.proc[p].d_from = "send"
    THEN [s EXCEPT !.proc[p].pc = "su_exc", !.proc[p].su_status = "raised"]
    ELSE Finish(s, p, "raised")

\* a welcome that does not read the unread count
ws_loop_stale(s, p, ord) ==
    LET user_id == s.s2u[p]
    IN  IF user_id = NoUser
        THEN disconnect(s, p, p, "handler")
        ELSE send_to_user([s EXCEPT !.proc[p].queries = @ + 1], p, user_id,
                          [type |-> "notifications", msg |-> "Hello!", count |-> 0], ord)

\* ------------------------------------------------------ websocket_endpoint
\* the top of `while True` (websocket.py 25-33)
ws_loop(s, p, ord) ==
    LET user_id == s.s2u[p]
    IN  IF user_id = NoUser
        THEN disconnect(s, p, p, "handler")     \* ValueError -> except Exception
        ELSE LET notifications_count == get_unread_notifications_count(s.notifs, user_id)
             IN  send_to_user([s EXCEPT !.proc[p].queries = @ + 1], p, user_id,
                              [type |-> "notifications", msg |-> "Hello!",
                               count |-> notifications_count], ord)

\* send_to_user returned into websocket_endpoint: websocket.receive_json()
\* raises at once on a socket that is not connected, else it waits
ws_after_send(s, p) ==
    IF s.sock[p].state = "open"
    THEN SetPc(s, p, "recv")
    ELSE disconnect(s, p, p, "handler")

\* send_to_user raised into websocket_endpoint: except Exception
ws_send_raised(s, p) == disconnect(s, p, p, "handler")

\* ------------------------------------------------- assignment notifications
\* one phrase for every kind of event
action_phrase_same(action) == "assigned to"

\* action_phrases.get(action, f"{action} from")
action_phrase(action) ==
    CASE action = "assigned" -> "assigned to"
      [] action = "unassigned" -> "unassigned from"
      [] OTHER -> "from"

\* the rendered text; the inviter's name and email are functions of the inviter
RenderAssign(action, kind, obj, inviter) ==
    <<"You've been", action_phrase(action), kind, ObjTitle(obj), "by", inviter>>

RenderInvite(team, inviter) == <<"You have an invite to", team, "from", inviter>>

\* Notification(...): defaults of models.py 308-329
Notification(id, user_id, sender_id, object_type, object_id, message, ts) ==
    [id |-> id, user_id |-> user_id, sender_id |-> sender_id,
     object_type |-> object_type, object_id |-> object_id, message |-> message,
     is_read |-> FALSE, created_at |-> ts, updated_at |-> ts]

\* a lookup that never finds a row
MatchingNothing(rows, user_id, sender_id, object_type, object_id, message) == {}

\* the dedup lookup of notify_if_needed
Matching(rows, user_id, sender_id, object_type, object_id, message) ==
    {n \in rows : /\ n.user_id = user_id
                  /\ n.sender_id = sender_id
                  /\ n.object_type = object_type
                  /\ n.object_id = object_id
                  /\ n.message = message}

\* a refresh that also marks the row unread
BumpAndUnread(row, ts) == [row EXCEPT !.updated_at = ts, !.is_read = FALSE]

\* existing.updated_at = get_time_stamp()
Bump(row, ts) == [row EXCEPT !.updated_at = ts]

\* an upsert without its dedup lookup
notify_always_insert(rows, id, ts, kind, obj, inviter, assignee_user, action) ==
    IF inviter = assignee_user
    THEN [rows |-> rows, commits |-> FALSE, inserted |-> FALSE]
    ELSE [rows |-> rows \cup {Notification(id, assignee_user, inviter, kind, obj,
                                           RenderAssign(action, kind, obj, inviter), ts)},
          commits |-> TRUE, inserted |-> TRUE]

\* notify_if_needed (tasks.py 267-306, events.py 467-506) on the rows the
\* session sees: the rows it leaves pending, and whether it reached its commit
notify_if_needed(rows, id, ts, kind, obj, inviter, assignee_user, action) ==
    IF inviter = assignee_user
    THEN [rows |-> rows, commits |-> FALSE, inserted |-> FALSE]
    ELSE LET message == RenderAssign(action, kind, obj, inviter)
             found == Matching(rows, assignee_user, inviter, kind, obj, message)
         IN  IF found = {}
             THEN [rows |-> rows \cup {Notification(id, assignee_user, inviter, kind,
                                                    obj, message, ts)},
                   commits |-> TRUE, inserted |-> TRUE]
             ELSE LET existing == CHOOSE n \in found : TRUE
                  IN  [rows |-> (rows \ {existing}) \cup {Bump(existing, ts)},
                       commits |-> TRUE, inserted |-> FALSE]

\* a session that writes the link when it is added and the rows at commit
session_autocommit(s, pend_links, pend_rows, ok) ==
    IF ok THEN [s EXCEPT !.links = pend_links, !.notifs = pend_rows]
    ELSE [s EXCEPT !.links = pend_links]

\* session.commit(): everything pending is written in one transaction or,
\* when the store rejects it, nothing is
session_commit(s, pend_links, pend_rows, ok) ==
    IF ok THEN [s EXCEPT !.links = pend_links, !.notifs = pend_rows] ELSE s

\* validate_assignment / validate_unassignment: TRUE when the request is refused
RefusedAssignment(s, act, kind, obj, member) ==
    \/ ObjTeam(obj) # MemberTeam[member]
    \/ act = "assign" /\ [kind |-> kind, obj |-> obj, member |-> member] \in s.links
    \/ act = "unassign" /\ [kind |-> kind, obj |-> obj, member |-> member] \notin s.links

\* an HTTPException raised before anything was written
Refuse(s, p) ==
    [s EXCEPT !.proc[p] = [IdleProc EXCEPT !.pc = "rejected", !.kind = s.proc[p].kind,
                                           !.act = s.proc[p].act,
                                           !.actor = s.proc[p].actor,
                                           !.rcpt = s.proc[p].rcpt,
                                           !.obj = s.proc[p].obj,
                                           !.member = s.proc[p].member]]

\* the commit raised: the session is closed and its pending changes are lost
Fail(s, p) ==
    [s EXCEPT !.proc[p] = [IdleProc EXCEPT !.pc = "failed", !.kind = s.proc[p].kind,
                                           !.act = s.proc[p].act,
                                           !.actor = s.proc[p].actor,
                                           !.rcpt = s.proc[p].rcpt,
                                           !.obj = s.proc[p].obj,
                                           !.member = s.proc[p].member,
                                           !.snap = s.proc[p].snap,
                                           !.sent = s.proc[p].sent,
                                           !.pushed = s.proc[p].pushed]]

StartRequest(s, p, kind, act, actor, rcpt, obj) ==
    [s EXCEPT !.events = @ + 1,
              !.proc[p] = [IdleProc EXCEPT !.kind = kind, !.act = act, !.actor = actor,
                                           !.rcpt = rcpt, !.obj = obj,
                                           !.raced = {q \in HttpProcs \ {p} :
                                                        s.proc[q].pc \in {"send", "close"}}]]

\* assign_task_to_member, unassign_task_from_member (tasks.py 310-372) and
\* assign_event_to_member, unassign_event_from_member (events.py 509-578),
\* up to the await of send_to_user.  ok: the store accepts the commit.
\* (The calendar sync of the event handlers is taken to succeed.)
assignment_handler(s, p, kind, act, actor, obj, member, ok, ord) ==
    LET rcpt == MemberUser[member]
        s0 == [StartRequest(s, p, kind, act, actor, rcpt, obj)
                  EXCEPT !.proc[p].member = member]
        link == [kind |-> kind, obj |-> obj, member |-> member]
        pend_links == IF act = "assign" THEN s.links \cup {link} ELSE s.links \ {link}
        n == notify_if_needed(s.notifs, s.next_id, s.now, kind, obj, actor, rcpt,
                              IF act = "assign" THEN "assigned" ELSE "unassigned")
        s1 == session_commit(s0, pend_links, n.rows, ok)
        s2 == [s1 EXCEPT !.now = IF n.commits THEN @ + 1 ELSE @,
                         !.next_id = IF n.inserted THEN @ + 1 ELSE @,
                         !.proc[p].committed = TRUE,
                         !.proc[p].recorded = get_unread_notifications_count(s1.notifs, rcpt)]
        notifications_count == get_unread_notifications_count(s2.notifs, rcpt)
    IN  IF RefusedAssignment(s, act, kind, obj, member) THEN Refuse(s0, p)
        ELSE IF ~ok THEN Fail(s1, p)
        ELSE send_to_user(s2, p, rcpt,
                          [type |-> kind, msg |-> act, count |-> notifications_count],
                          ord)

\* ---------------------------------------------------------------- invites
\* validate_membership, check_invitation_permissions (for an invited viewer),
\* check_duplicate_invite, check_existing_member: TRUE when refused
RefusedInvite(s, actor, team, email) ==
    LET membership == {m \in MemberIds : MemberUser[m] = actor /\ MemberTeam[m] = team}
    IN  \/ membership = {}
        \/ \E m \in membership : MemberRole[m] = "viewer"
        \/ \E i \in s.invites : i.email = email /\ i.team_id = team
        \/ \E m \in MemberIds : MemberTeam[m] = team /\ MemberUser[m] = UserByEmail(email)

\* the final session.commit() of invite_by_email, or the rollback of its
\* except branch
invite_commit(s, p, ok) ==
    IF ok
    THEN LET rows == IF s.proc[p].pend = NoRow THEN s.notifs
                     ELSE s.notifs \cup {s.proc[p].pend}
         IN  Finish([s EXCEPT !.invites = @ \cup {s.proc[p].pend_inv},
                              !.notifs = rows,
                              !.proc[p].committed = TRUE,
                              !.proc[p].recorded =
                                  IF s.proc[p].pend = NoRow THEN -1
                                  ELSE get_unread_notifications_count(rows, s.proc[p].rcpt)],
                    p, "done")
    ELSE Fail(s, p)

\* invite_by_email (invite.py 69-133) for the email of an existing user, up
\* to the await of send_to_user; the session has autoflush off, so the count
\* query does not see the pending row.  (An unknown email is sent a mail and
\* no notification: that branch is left out.)
invite_by_email(s, p, actor, team, email, ok, ord) ==
    LET user == UserByEmail(email)
        s0 == StartRequest(s, p, "invite", "invite", actor, user, <<"i", s.next_id>>)
        new_invite == [id |-> <<"i", s.next_id>>, email |-> email, team_id |-> team,
                       invited_by |-> actor]
        s1 == [s0 EXCEPT !.next_id = @ + 1, !.proc[p].pend_inv = new_invite]
        new_notification == Notification(s1.next_id, user, actor, "invitation",
                                         new_invite.id, RenderInvite(team, actor), s.now)
        s2 == [s1 EXCEPT !.next_id = @ + 1, !.now = @ + 1,
                         !.proc[p].pend = new_notification]
        notifications_count == get_unread_notifications_count(s2.notifs, user)
    IN  IF RefusedInvite(s, actor, team, email) THEN Refuse(s0, p)
        ELSE send_to_user(s2, p, user,
                          [type |-> "notifications", msg |-> "", count |-> notifications_count],
                          ord)

\* ------------------------------------------------------- acknowledgment
\* a lookup by id alone
respond_lookup_any_user(rows, notification_id, user_id) ==
    {n \in rows : n.id = notification_id}

\* a lookup by user alone
respond_lookup_any_id(rows, notification_id, user_id) ==
    {n \in rows : n.user_id = user_id}

\* select(Notification).where((id == notification_id) & (user_id == user_id))
respond_lookup(rows, notification_id, user_id) ==
    {n \in rows : n.id = notification_id /\ n.user_id = user_id}

\* notification_respond (notifications.py 47-69): the handler has no await.
\* The before_update hook of models.py stamps updated_at on the flush.
notification_respond(s, p, user_id, notification_id, is_read, ok) ==
    LET s0 == StartRequest(s, p, "respond", IF is_read THEN "read" ELSE "unread",
                           user_id, user_id, <<"n", notification_id>>)
        found == respond_lookup(s.notifs, notification_id, user_id)
        exist_notification == CHOOSE n \in found : TRUE
        rows == (s.notifs \ {exist_notification})
                    \cup {[exist_notification EXCEPT !.is_read = is_read,
                                                     !.updated_at = s.now]}
    IN  IF found = {} THEN Refuse(s0, p)
        ELSE IF ~ok THEN Fail(s0, p)
        ELSE Finish([s0 EXCEPT !.notifs = rows, !.now = @ + 1,
                               !.proc[p].committed = TRUE], p, "done")

\* ---------------------------------------------------------- retention sweep
\* the horizons the job may be given, in ticks of the clock
SweepDays == {0, 1}

\* rows of the store a sweep with this cutoff is meant for
OldRead(rows, cutoff) == {n \in rows : n.is_read = TRUE /\ n.created_at < cutoff}

\* delete_old_notifications (cleanup.py 7-15): the cutoff and the select
sweep_select(s, days) ==
    LET cutoff == s.now - days
        old_notifications == OldRead(s.notifs, cutoff)
    IN  [s EXCEPT !.events = @ + 1,
                  !.sweep = [pc |-> "selected", old |-> old_notifications,
                             cutoff |-> cutoff, deleted |-> {}, failed |-> FALSE]]

\* delete_old_notifications (cleanup.py 17-20): session.delete of every
\* selected object and the commit, which issues one DELETE by primary key per
\* object; ok: the store accepts the commit
sweep_commit(s, ok) ==
    LET ids == {n.id : n \in s.sweep.old}
        gone == {n \in s.notifs : n.id \in ids}
    IN  IF ok
        THEN [s EXCEPT !.notifs = @ \ gone,
                       !.sweep = [@ EXCEPT !.pc = "idle", !.deleted = gone]]
        ELSE [s EXCEPT !.sweep = [@ EXCEPT !.pc = "idle", !.failed = TRUE]]

\* --------------------------------------------------------------- broadcast
BroadcastMessage == [type |-> "broadcast", msg |-> "m", count |-> 0]

\* list(self.active_connections): the keys in insertion order.  A key is
\* inserted together with its set, which is named after the socket that
\* came first, and sockets are numbered as they arrive.
KeyOrder(s) ==
    LET keys == {u \in UserIds : s.ac[u] # NoSet}
        n == Cardinality(keys)
    IN  CHOOSE f \in [1..n -> keys] : \A i, j \in 1..n : i < j => s.ac[f[i]] < s.ac[f[j]]

\* the head of broadcast's for loop (manager.py 98-99)
broadcast_next(s, p, ord) ==
    IF s.proc[p].b_todo = <<>>
    THEN Finish(s, p, "done")
    ELSE send_to_user([s EXCEPT !.proc[p].b_todo = Tail(@)], p, Head(s.proc[p].b_todo),
                      BroadcastMessage, ord)

\* broadcast(message) up to its first await; nothing in the application calls
\* it, so its caller is left open
broadcast(s, p, ord) ==
    LET s0 == [StartRequest(s, p, "broadcast", "broadcast", NoUser, NoUser, <<"none", 0>>)
                  EXCEPT !.proc[p].b_todo = KeyOrder(s),
                         !.proc[p].b_start = {c \in Conns : \E u \in UserIds :
                                                 c \in ConnsOf(s, u)}]
    IN  SetPc(s0, p, "b_next")

\* what one send_to_user of a broadcast did is added to the broadcast's record
broadcast_record(s, p) ==
    [s EXCEPT !.proc[p].b_sent = @ \cup {s.proc[p].sent[i] : i \in DOMAIN s.proc[p].sent},
              !.proc[p].b_failed = @ \cup s.proc[p].failed]

\* ------------------------------------------------- the code between awaits
\* send_to_user returned to the handler that called it
after_send(s, p, ok) ==
    CASE s.proc[p].kind = "ws" -> ws_after_send(s, p)
      [] s.proc[p].kind = "invite" -> invite_commit(s, p, ok)
      [] s.proc[p].kind = "broadcast" -> SetPc(broadcast_record(s, p), p, "b_next")
      [] OTHER -> Finish(s, p, "done")           \* session.refresh(new_link); return

\* send_to_user raised into the handler that called it
send_raised(s, p) ==
    CASE s.proc[p].kind = "ws" -> ws_send_raised(s, p)
      [] s.proc[p].kind = "broadcast" ->
             Finish([broadcast_record(s, p) EXCEPT !.proc[p].b_todo = <<>>], p, "raised")
      [] OTHER -> Finish(s, p, "raised")         \* invite: rollback, then HTTP 500

Transient == {"d_ret", "d_exc", "su_next", "su_ret", "su_exc", "loop", "b_next"}

Step(s, p, ok, ord) ==
    CASE s.proc[p].pc = "d_ret" -> disconnect_return(s, p)
      [] s.proc[p].pc = "d_exc" -> disconnect_raise(s, p)
      [] s.proc[p].pc = "su_next" -> send_next(s, p)
      [] s.proc[p].pc = "su_ret" -> after_send(s, p, ok)
      [] s.proc[p].pc = "su_exc" -> send_raised(s, p)
      [] s.proc[p].pc = "loop" -> ws_loop(s, p, ord)
      [] s.proc[p].pc = "b_next" -> broadcast_next(s, p, ord)

\* run handler p until it is suspended at an await or has ended
RECURSIVE Run(_, _, _, _)
Run(s, p, ok, ord) ==
    IF s.proc[p].pc \in Transient THEN Run(Step(s, p, ok, ord), p, ok, ord) ELSE s

\* ---------------------------------------------------------------- actions
Perms(S) == {f \in [1..Cardinality(S) -> S] : \A i, j \in 1..Cardinality(S) : i # j => f[i] # f[j]}
Orders == Perms(Conns)
Ended == {"done", "raised", "rejected", "failed"}

\* a client opens a websocket: websocket_endpoint runs connect up to its await
WsOpen(c) ==
    /\ events < MaxEvents
    /\ proc[c].pc = "idle"
    /\ \A d \in Conns : d < c => proc[d].pc # "idle"
    /\ \E header \in Headers : Becomes(connect(Cur, c, c, header))

\* close(1008) is done: connect returns and the loop finds no user
AuthCloseDone(c) ==
    /\ proc[c].pc = "auth_close"
    /\ \E ord \in Orders : Becomes(Run(SetPc(Cur, c, "loop"), c, TRUE, ord))

\* websocket.accept(subprotocol=token) is done, or raised
AcceptDone(c) ==
    /\ proc[c].pc = "accept"
    /\ IF CanAccept(sock[c])
       THEN \E ord \in Orders :
              Becomes(Run([Cur EXCEPT !.sock[c].state = "open",
                                      !.sock[c].subprotocol = proc[c].token,
                                      !.proc[c].pc = "loop"], c, TRUE, ord))
       ELSE Becomes(Finish(Cur, c, "raised"))

\* an awaited send_json is done, or raised; what is written to one socket
\* arrives in the order of the calls
SendDone(p) ==
    /\ proc[p].pc = "send"
    /\ CanSend(sock[proc[p].su_cur]) => Head(sendq[proc[p].su_cur]) = p
    /\ \E ok \in BOOLEAN, ord \in Orders : Becomes(Run(send_resume(Cur, p), p, ok, ord))

\* an awaited close of disconnect is done (its own errors are swallowed)
CloseDone(p) ==
    /\ proc[p].pc = "close"
    /\ \E ok \in BOOLEAN, ord \in Orders : Becomes(Run(disconnect_resume(Cur, p), p, ok, ord))

\* receive_json returns a frame of the client
Receive(c) ==
    /\ proc[c].pc = "recv"
    /\ CanSend(sock[c])
    /\ events < MaxEvents
    /\ \E ord \in Orders :
         Becomes(Run([Cur EXCEPT !.events = @ + 1, !.proc[c].pc = "loop"],
                     c, TRUE, ord))

\* receive_json raises: WebSocketDisconnect, or the socket was closed here
ReceiveFail(c) ==
    /\ proc[c].pc = "recv"
    /\ ~CanSend(sock[c])
    /\ \E ord \in Orders : Becomes(Run(disconnect(Cur, c, c, "handler"), c, TRUE, ord))

\* the peer of a socket goes away
ClientDrop(c) ==
    /\ sock[c].state \in {"connecting", "open"}
    /\ ~sock[c].gone
    /\ events < MaxEvents
    /\ sock' = [sock EXCEPT ![c].gone = TRUE]
    /\ events' = events + 1
    /\ UNCHANGED <<active_connections, conn_sets, socket_to_user, inbox, sendq, links,
                   notifications, invites, now, next_id, proc, sweep>>

\* the slot a new HTTP request runs in: the first that is free
FreeSlot(p) ==
    /\ p \in HttpProcs
    /\ proc[p].pc \in Ended \cup {"idle"}
    /\ \A q \in HttpProcs : q < p => proc[q].pc \notin Ended \cup {"idle"}
    /\ events < MaxEvents

AssignTask(p) ==
    /\ FreeSlot(p)
    /\ \E actor \in UserIds, obj \in TaskIds, member \in MemberIds, ok \in BOOLEAN, ord \in Orders :
         Becomes(Run(assignment_handler(Cur, p, "task", "assign", actor, obj, member,
                                        ok, ord), p, ok, ord))

UnassignTask(p) ==
    /\ FreeSlot(p)
    /\ \E actor \in UserIds, obj \in TaskIds, member \in MemberIds, ok \in BOOLEAN, ord \in Orders :
         Becomes(Run(assignment_handler(Cur, p, "task", "unassign", actor, obj, member,
                                        ok, ord), p, ok, ord))

AssignEvent(p) ==
    /\ FreeSlot(p)
    /\ \E actor \in UserIds, obj \in EventIds, member \in MemberIds, ok \in BOOLEAN, ord \in Orders :
         Becomes(Run(assignment_handler(Cur, p, "event", "assign", actor, obj, member,
                                        ok, ord), p, ok, ord))

UnassignEvent(p) ==
    /\ FreeSlot(p)
    /\ \E actor \in UserIds, obj \in EventIds, member \in MemberIds, ok \in BOOLEAN, ord \in Orders :
         Becomes(Run(assignment_handler(Cur, p, "event", "unassign", actor, obj, member,
                                        ok, ord), p, ok, ord))

InviteByEmail(p) ==
    /\ FreeSlot(p)
    /\ \E actor \in UserIds, team \in TeamIds, email \in Emails, ok \in BOOLEAN, ord \in Orders :
         Becomes(Run(invite_by_email(Cur, p, actor, team, email, ok, ord), p, ok, ord))

\* notification ids a client may name: those handed out so far and one more
RespondNotification(p) ==
    /\ FreeSlot(p)
    /\ \E user_id \in UserIds, notification_id \in 1..next_id, is_read \in BOOLEAN,
          ok \in BOOLEAN :
         Becomes(notification_respond(Cur, p, user_id, notification_id, is_read, ok))

\* the scheduler thread starts delete_old_notifications(days) and runs it up
\* to the result of its select
SweepSelect ==
    /\ events < MaxEvents
    /\ sweep.pc = "idle"
    /\ \E days \in SweepDays : Becomes(sweep_select(Cur, days))

\* the thread deletes what it selected and commits
SweepCommit ==
    /\ sweep.pc = "selected"
    /\ \E ok \in BOOLEAN : Becomes(sweep_commit(Cur, ok))

\* some caller awaits broadcast(message)
Broadcast(p) ==
    /\ FreeSlot(p)
    /\ \E ord \in Orders : Becomes(Run(broadcast(Cur, p, ord), p, TRUE, ord))

Next ==
    \/ \E c \in Conns : WsOpen(c)
    \/ \E c \in Conns : AuthCloseDone(c)
    \/ \E c \in Conns : AcceptDone(c)
    \/ \E p \in Procs : SendDone(p)
    \/ \E p \in Procs : CloseDone(p)
    \/ \E c \in Conns : Receive(c)
    \/ \E c \in Conns : ReceiveFail(c)
    \/ \E c \in Conns : ClientDrop(c)
    \/ \E p \in HttpProcs : AssignTask(p)
    \/ \E p \in HttpProcs : UnassignTask(p)
    \/ \E p \in HttpProcs : AssignEvent(p)
    \/ \E p \in HttpProcs : UnassignEvent(p)
    \/ \E p \in HttpProcs : InviteByEmail(p)
    \/ \E p \in HttpProcs : RespondNotification(p)

Spec == Init /\ [][Next]_vars

\* ------------------------------------------------- runs with two tabs open
\* The state in which user u2 has opened two connections one after the other
\* and both handlers wait for a frame: the first tab has its own welcome and
\* the welcome fan-out of the second, the second has its welcome.
TabUser == "u2"
TabHeader == <<"tok_u2", "chat">>
Welcome(count) == [type |-> "notifications", msg |-> "Hello!", count |-> count]
TabProc(c) ==
    [IdleProc EXCEPT !.pc = "recv", !.kind = "ws", !.token = Head(TabHeader),
                     !.su_user = TabUser, !.su_msg = Welcome(0),
                     !.su_status = "returned", !.snap = 1..c,
                     !.sent = [i \in 1..c |-> i], !.queries = 1, !.pushed = 0]
TabSock == [IdleSock EXCEPT !.state = "open", !.subprotocol = Head(TabHeader),
                            !.header = TabHeader]

InitTabs ==
    /\ active_connections = [u \in UserIds |-> IF u = TabUser THEN 1 ELSE NoSet]
    /\ conn_sets = [i \in Conns |-> IF i = 1 THEN Conns ELSE {}]
    /\ socket_to_user = [c \in Conns |-> TabUser]
    /\ sock = [c \in Conns |-> TabSock]
    /\ inbox = [c \in Conns |-> [i \in 1..(NumConns - c + 1) |-> Welcome(0)]]
    /\ sendq = [c \in Conns |-> <<>>]
    /\ links = {}
    /\ notifications = {}
    /\ invites = {}
    /\ now = 1
    /\ next_id = 1
    /\ events = 0
    /\ proc = [p \in Procs |-> IF p \in Conns THEN TabProc(p) ELSE IdleProc]
    /\ sweep = IdleSweep

NextTabs ==
    \/ \E p \in Procs : SendDone(p)
    \/ \E p \in Procs : CloseDone(p)
    \/ \E c \in Conns : Receive(c)
    \/ \E c \in Conns : ReceiveFail(c)
    \/ \E c \in Conns : ClientDrop(c)
    \/ \E p \in HttpProcs : AssignTask(p)
    \/ \E p \in HttpProcs : UnassignTask(p)
    \/ \E p \in HttpProcs : AssignEvent(p)
    \/ \E p \in HttpProcs : UnassignEvent(p)
    \/ \E p \in HttpProcs : InviteByEmail(p)
    \/ \E p \in HttpProcs : RespondNotification(p)

SpecTabs == InitTabs /\ [][NextTabs]_vars

\* ------------------------------------------- runs with two users connected
\* The state in which u1 has opened the first connection and u2 the others,
\* one after the other, and every handler waits for a frame.
CastUser(c) == IF c = 1 THEN "u1" ELSE "u2"
CastHeader(c) == IF c = 1 THEN <<"tok_u1">> ELSE TabHeader
CastFirst(c) == IF c = 1 THEN 1 ELSE 2        \* the first socket of c's user
CastProc(c) ==
    [IdleProc EXCEPT !.pc = "recv", !.kind = "ws", !.token = Head(CastHeader(c)),
                     !.su_user = CastUser(c), !.su_msg = Welcome(0),
                     !.su_status = "returned", !.snap = CastFirst(c)..c,
                     !.sent = [i \in 1..(c - CastFirst(c) + 1) |-> CastFirst(c) + i - 1],
                     !.queries = 1, !.pushed = 0]
CastSock(c) == [IdleSock EXCEPT !.state = "open", !.subprotocol = Head(CastHeader(c)),
                                !.header = CastHeader(c)]

InitCast ==
    /\ active_connections = [u \in UserIds |-> IF u = "u1" THEN 1 ELSE 2]
    /\ conn_sets = [i \in Conns |-> CASE i = 1 -> {1} [] i = 2 -> 2..NumConns [] OTHER -> {}]
    /\ socket_to_user = [c \in Conns |-> CastUser(c)]
    /\ sock = [c \in Conns |-> CastSock(c)]
    /\ inbox = [c \in Conns |-> IF c = 1 THEN <<Welcome(0)>>
                                 ELSE [i \in 1..(NumConns - c + 1) |-> Welcome(0)]]
    /\ sendq = [c \in Conns |-> <<>>]
    /\ links = {}
    /\ notifications = {}
    /\ invites = {}
    /\ now = 1
    /\ next_id = 1
    /\ events = 0
    /\ proc = [p \in Procs |-> IF p \in Conns THEN CastProc(p) ELSE IdleProc]
    /\ sweep = IdleSweep

NextCast ==
    \/ \E p \in Procs : SendDone(p)
    \/ \E p \in Procs : CloseDone(p)
    \/ \E c \in Conns : Receive(c)
    \/ \E c \in Conns : ReceiveFail(c)
    \/ \E c \in Conns : ClientDrop(c)
    \/ \E p \in HttpProcs : AssignTask(p)
    \/ \E p \in HttpProcs : Broadcast(p)

SpecCast == InitCast /\ [][NextCast]_vars

\* ------------------------------------ runs that start from a read notification
\* The state in which, with nobody connected, u1 has assigned the task to the
\* member of u2 and u2 has then marked the notification as read.
InitState ==
    [ac |-> [u \in UserIds |-> NoSet], sets |-> [i \in Conns |-> {}],
     s2u |-> [c \in Conns |-> NoUser], sock |-> [c \in Conns |-> IdleSock],
     inbox |-> [c \in Conns |-> <<>>], sendq |-> [c \in Conns |-> <<>>],
     links |-> {}, notifs |-> {}, invites |-> {}, now |-> 1, next_id |-> 1,
     events |-> 0, proc |-> [p \in Procs |-> IdleProc], sweep |-> IdleSweep]

FirstSlot == NumConns + 1
AnyOrder == CHOOSE ord \in Orders : TRUE

AfterAssign ==
    Run(assignment_handler(InitState, FirstSlot, "task", "assign", "u1", <<"t", 1>>,
                           "m2", TRUE, AnyOrder), FirstSlot, TRUE, AnyOrder)

AfterRead == notification_respond(AfterAssign, FirstSlot, "u2", 1, TRUE, TRUE)

\* the variables have the values of record s
StateIs(s) ==
    /\ active_connections = s.ac
    /\ conn_sets = s.sets
    /\ socket_to_user = s.s2u
    /\ sock = s.sock
    /\ inbox = s.inbox
    /\ sendq = s.sendq
    /\ links = s.links
    /\ notifications = s.notifs
    /\ invites = s.invites
    /\ now = s.now
    /\ next_id = s.next_id
    /\ events = s.events
    /\ proc = s.proc
    /\ sweep = s.sweep

InitBump == StateIs([AfterRead EXCEPT !.events = 0])

SpecBump == InitBump /\ [][Next]_vars

\* ------------------------------------------- runs with the retention sweep
\* The same start, where the store holds a read notification; the scheduler
\* thread runs next to the event loop.
NextSweep ==
    \/ \E c \in Conns : WsOpen(c)
    \/ \E c \in Conns : AuthCloseDone(c)
    \/ \E c \in Conns : AcceptDone(c)
    \/ \E p \in Procs : SendDone(p)
    \/ \E p \in Procs : CloseDone(p)
    \/ \E c \in Conns : Receive(c)
    \/ \E c \in Conns : ReceiveFail(c)
    \/ \E c \in Conns : ClientDrop(c)
    \/ \E p \in HttpProcs : AssignTask(p)
    \/ \E p \in HttpProcs : UnassignTask(p)
    \/ \E p \in HttpProcs : AssignEvent(p)
    \/ \E p \in HttpProcs : UnassignEvent(p)
    \/ \E p \in HttpProcs : InviteByEmail(p)
    \/ \E p \in HttpProcs : RespondNotification(p)
    \/ SweepSelect
    \/ SweepCommit

SpecSweep == InitBump /\ [][NextSweep]_vars

\* ================================================================ properties
\* the registry as the two maps show it
Registered(c, u) ==
    active_connections[u] # NoSet /\ c \in conn_sets[active_connections[u]]

InRegistry(c) == socket_to_user[c] # NoUser \/ \E u \in UserIds : Registered(c, u)

\* no call of connect, disconnect or send_to_user is suspended at an await
Quiescent == \A p \in Procs : proc[p].pc \notin {"auth_close", "accept", "send", "close"}

\* the credentials that validate, and the user each one names
GenuineTokens == {"tok_u1", "tok_u2"}
BadCredential(c) ==
    /\ sock[c].state # "new"
    /\ sock[c].header = <<>> \/ Head(sock[c].header) \notin GenuineTokens

Occurrences(seq, x) == Cardinality({i \in DOMAIN seq : seq[i] = x})

\* C1: whenever no registry call is in progress, a socket is in the set of
\* user u in active_connections exactly when socket_to_user maps it to u.
C1_MapsConsistentWhenQuiescent ==
    Quiescent =>
        \A c \in Conns, u \in UserIds : Registered(c, u) <=> socket_to_user[c] = u

\* a quiescent state with one socket registered and another, once admitted,
\* removed again
C1_Witness ==
    /\ Quiescent
    /\ \E c \in Conns : socket_to_user[c] # NoUser /\ proc[c].pc = "recv"
    /\ \E c \in Conns : /\ sock[c].subprotocol # NoToken
                        /\ proc[c].pc = "done"
                        /\ socket_to_user[c] = NoUser

\* C2: no key of active_connections maps to an empty set, and once the last
\* socket of a user has been removed the user's key is gone.
C2_NoEmptyEntries ==
    /\ \A u \in UserIds :
         active_connections[u] # NoSet => conn_sets[active_connections[u]] # {}
    /\ Quiescent =>
         \A u \in UserIds :
           (\A c \in Conns : socket_to_user[c] # u) => active_connections[u] = NoSet

\* an admitted socket, the only one of its user, has been disconnected
C2_Witness ==
    \E c \in Conns :
      /\ sock[c].subprotocol # NoToken
      /\ proc[c].pc = "done"
      /\ active_connections[AuthUser(sock[c].subprotocol)] = NoSet
      /\ \A d \in Conns \ {c} : sock[d].state = "new"

\* C3: a connection whose credential is missing, invalid, expired or without a
\* user id is closed with code 1008, is never in either map, is never accepted,
\* causes no count query and no push, and its handler changes no notification
\* row and delivers nothing.
C3_Rejected(c) ==
    /\ ~InRegistry(c)
    /\ sock[c].state = "closed"
    /\ sock[c].code = WS_1008_POLICY_VIOLATION
    /\ sock[c].subprotocol = NoToken
    /\ inbox[c] = <<>>
    /\ proc[c].queries = 0
    /\ proc[c].su_status = "none"

C3_RejectsBadCredential ==
    [][\A c \in Conns :
         BadCredential(c)' =>
           /\ C3_Rejected(c)'
           /\ proc'[c] # proc[c] => notifications' = notifications /\ inbox' = inbox]_vars

\* a rejected connection whose handler has ended, next to stored notifications
C3_Witness ==
    \E c \in Conns :
      /\ BadCredential(c)
      /\ sock[c].header # <<>>
      /\ proc[c].pc = "done"
      /\ notifications # {}

\* C4: when send_to_user(u, m) returns, every socket of its snapshot whose send
\* did not fail has received m exactly once from this call, and every socket
\* whose send failed is in neither map.
C4_FanOutIsolatesFailures ==
    \A p \in Procs :
      proc[p].su_status = "returned" =>
        \A c \in proc[p].snap :
          IF c \in proc[p].failed
          THEN ~InRegistry(c)
          ELSE /\ Occurrences(proc[p].sent, c) = 1
               /\ \E i \in DOMAIN inbox[c] : inbox[c][i] = proc[p].su_msg

\* a call over two sockets has returned: one send failed, the other delivered
C4_Witness ==
    \E p \in Procs :
      /\ proc[p].su_status = "returned"
      /\ proc[p].failed # {}
      /\ proc[p].snap \ proc[p].failed # {}

\* the rows notify_if_needed looks up for the request handler p has run
RowsOfRequest(rows, r) ==
    Matching(rows, r.rcpt, r.actor, r.kind, r.obj,
             RenderAssign(IF r.act = "assign" THEN "assigned" ELSE "unassigned",
                          r.kind, r.obj, r.actor))

\* handler p runs an assignment request in this step and commits a notification
NotifiesNow(p) ==
    /\ FreeSlot(p)
    /\ now' = now + 1
    /\ proc'[p].kind \in {"task", "event"}
    /\ proc'[p].committed

\* C5: each committed call of notify_if_needed leaves exactly one row for its
\* tuple; a call that finds the row of an earlier call keeps that row and its
\* created_at and advances its updated_at.
C5_DedupIdempotence ==
    [][\A p \in HttpProcs :
         NotifiesNow(p) =>
           LET old == RowsOfRequest(notifications, proc'[p])
               new == RowsOfRequest(notifications', proc'[p])
           IN  /\ Cardinality(new) = 1
               /\ \A o \in old, n \in new :
                    /\ n.id = o.id
                    /\ n.created_at = o.created_at
                    /\ n.updated_at > o.updated_at]_vars

\* the single row of a tuple has been found again and refreshed
C5_Witness ==
    \E n \in notifications :
      /\ n.object_type \in {"task", "event"}
      /\ n.updated_at > n.created_at
      /\ Matching(notifications, n.user_id, n.sender_id, n.object_type, n.object_id,
                  n.message) = {n}

\* C6: an assignment or unassignment whose actor is the assignee creates no
\* notification row and delivers no push to any connection of that user.
C6_NoSelfNotification ==
    \A p \in HttpProcs :
      (proc[p].kind \in {"task", "event"} /\ proc[p].actor # NoUser
                                          /\ proc[p].actor = proc[p].rcpt) =>
        /\ \A n \in notifications :
             ~(n.user_id = proc[p].actor /\ n.sender_id = proc[p].actor)
        /\ proc[p].sent = <<>>

\* C7: the count carried by the push of a domain event that has completed is
\* the recipient's unread count as the event committed it.
C7_PushCarriesCommittedCount ==
    \A p \in HttpProcs :
      (proc[p].pc = "done" /\ proc[p].sent # <<>>) => proc[p].pushed = proc[p].recorded

\* the user a genuine credential names
CredUser(c) == IF Head(sock[c].header) = "tok_u1" THEN "u1" ELSE "u2"

\* C8: a connection with a valid credential for u is registered under u in
\* both maps, its handshake echoes the credential as the sub-protocol, each
\* count query of its handler is pushed as a "notifications" message with u's
\* unread count of that moment, and the handler waits for a frame only after
\* that message was delivered on the connection.
C8_WelcomeOnAdmission ==
    [][\A c \in Conns :
         /\ (proc[c].pc = "idle" /\ sock'[c].state # "new" /\ ~BadCredential(c)') =>
              /\ proc'[c].pc = "accept"
              /\ socket_to_user'[c] = CredUser(c)'
              /\ Registered(c, CredUser(c))'
         /\ (proc[c].pc = "accept" /\ sock'[c].state = "open") =>
              sock'[c].subprotocol = Head(sock[c].header)
         /\ proc'[c].queries = proc[c].queries + 1 =>
              /\ proc'[c].su_user = CredUser(c)
              /\ proc'[c].su_msg =
                   [type |-> "notifications", msg |-> "Hello!",
                    count |-> Cardinality({n \in notifications :
                                             n.user_id = CredUser(c) /\ ~n.is_read})]
         /\ proc'[c].pc = "recv" =>
              /\ proc'[c].queries >= 1
              /\ proc'[c].su_msg.type = "notifications"
              /\ Occurrences(proc'[c].sent, c) = 1
              /\ \E i \in DOMAIN inbox'[c] : inbox'[c][i] = proc'[c].su_msg]_vars

\* an admitted connection waits for its first frame, welcomed with a count of 1
C8_Witness ==
    \E c \in Conns :
      /\ proc[c].pc = "recv"
      /\ proc[c].queries = 1
      /\ sock[c].subprotocol = Head(sock[c].header)
      /\ inbox[c] = <<[type |-> "notifications", msg |-> "Hello!", count |-> 1]>>

\* handler p is about to call disconnect on a socket that is in no map
DisconnectsUnregistered(p) ==
    \/ /\ proc[p].pc = "send"
       /\ ~CanSend(sock[proc[p].su_cur])
       /\ ~InRegistry(proc[p].su_cur)
    \/ /\ p \in Conns
       /\ proc[p].pc \in {"recv", "auth_close"}
       /\ ~CanSend(sock[p])
       /\ ~InRegistry(p)

RegistryUnchanged ==
    /\ active_connections' = active_connections
    /\ conn_sets' = conn_sets
    /\ socket_to_user' = socket_to_user

\* C9: disconnect on a socket that is not registered changes neither map and
\* raises nothing, and once the close awaited by disconnect(c) is over c is in
\* neither map, whether or not that close raised.
C9_RemoveIdempotent ==
    [][\A p \in Procs :
         /\ (DisconnectsUnregistered(p) /\ proc'[p] # proc[p]) =>
              /\ RegistryUnchanged
              /\ proc'[p].pc # "raised"
              /\ proc'[p].su_status # "raised"
         /\ (proc[p].pc = "close" /\ proc'[p] # proc[p]) =>
              \A c \in Conns : c = proc[p].d_ws => ~InRegistry(c)']_vars

\* an admitted socket whose close raised is out of both maps, and a later
\* disconnect of it found nothing to do
C9_Witness ==
    \E c \in Conns :
      /\ sock[c].subprotocol # NoToken
      /\ sock[c].close_err
      /\ sock[c].redisc
      /\ ~InRegistry(c)

\* C10: an assignment request by an actor other than the assignee changes the
\* link and the notification rows in one commit or not at all; when the commit
\* fails neither has changed.
C10_LinkAndNotificationAtomic ==
    [][\A p \in HttpProcs :
         (/\ FreeSlot(p)
          /\ events' = events + 1
          /\ proc'[p].kind \in {"task", "event"}
          /\ proc'[p].actor # proc'[p].rcpt) =>
           /\ links' # links <=> notifications' # notifications
           /\ proc'[p].pc = "failed" => links' = links /\ notifications' = notifications]_vars

\* the commit of an unassignment by another user failed: the link is still there
C10_Witness ==
    \E p \in HttpProcs :
      /\ proc[p].pc = "failed"
      /\ proc[p].act = "unassign"
      /\ proc[p].actor # proc[p].rcpt
      /\ links # {}
      /\ Cardinality(notifications) = 1

\* C11: when the write or commit of the notification of an assignment or an
\* invite fails, no push of that request has been delivered to any connection.
C11_NoPushWhenPersistFails ==
    \A p \in HttpProcs : proc[p].pc = "failed" => proc[p].sent = <<>>

\* C12: send_to_user never raises into its caller, and no request that reached
\* its push ends with an error.
C12_PushNeverPropagates ==
    \A p \in Procs :
      /\ proc[p].su_status # "raised"
      /\ p \in HttpProcs => proc[p].pc # "raised"

\* ---------------------------------------------------------------- C13
\* this step is the arrival of an HTTP request, run in slot p
RequestStep(p) ==
    /\ FreeSlot(p)
    /\ events' = events + 1
    /\ sock' = sock
    /\ \A c \in Conns : proc'[c] = proc[c]

\* this step is a respond request of slot p that succeeded
RespondSucceeds(p) ==
    /\ RequestStep(p)
    /\ proc'[p].kind = "respond"
    /\ proc'[p].pc = "done"

UnreadOf(u) == get_unread_notifications_count(notifications, u)

\* C13 as stated: every successful respond request with is_read true lowers the
\* unread count of its user by exactly 1 and leaves every other user's count.
C13_ReadDecrementsCount ==
    [][\A p \in HttpProcs :
         (RespondSucceeds(p) /\ proc'[p].act = "read") =>
           \A u \in UserIds :
             UnreadOf(u)' = IF u = proc'[p].actor THEN UnreadOf(u) - 1 ELSE UnreadOf(u)]_vars

\* C13: a successful respond request with is_read true on a notification that
\* was unread lowers the unread count of its user by exactly 1 and leaves the
\* unread count of every other user unchanged.
C13_ReadOfUnreadDecrementsCount ==
    [][\A p \in HttpProcs :
         ( /\ RespondSucceeds(p)
           /\ proc'[p].act = "read"
           /\ \E n \in notifications : n.id = proc'[p].obj[2] /\ ~n.is_read ) =>
           \A u \in UserIds :
             UnreadOf(u)' = IF u = proc'[p].actor THEN UnreadOf(u) - 1 ELSE UnreadOf(u)]_vars

\* a notification was created and then marked read by its recipient
C13_Witness ==
    /\ events = 2
    /\ \E p \in HttpProcs :
         /\ proc[p].kind = "respond" /\ proc[p].pc = "done" /\ proc[p].act = "read"
         /\ \E n \in notifications :
              n.id = proc[p].obj[2] /\ n.user_id = proc[p].actor /\ n.is_read
         /\ UnreadOf(proc[p].actor) = 0

\* ---------------------------------------------------------------- C14
\* this step is an assign-task request of slot p that committed
AssignTaskCommits(p) ==
    /\ RequestStep(p)
    /\ proc'[p].kind = "task"
    /\ proc'[p].act = "assign"
    /\ proc'[p].committed

\* this step ends an assign-task request of slot p with a normal return
AssignTaskReturns(p) ==
    /\ proc'[p].kind = "task"
    /\ proc'[p].act = "assign"
    /\ proc[p].pc # "done" \/ FreeSlot(p)
    /\ proc'[p].pc = "done"
    /\ proc'[p].committed

\* C14: when A assigns task T to a member whose user B is not A and B has no
\* notification yet, the store then holds exactly one row of B (object_type
\* task, object_id T, unread) and the message pushed is type "task", msg
\* "assign", count 1; when the request returns, every connection of B it found
\* registered and whose send did not fail has received that message once.
C14_AssignScenario ==
    [][\A p \in HttpProcs :
         /\ ( /\ AssignTaskCommits(p)
              /\ proc'[p].actor # proc'[p].rcpt
              /\ \A n \in notifications : n.user_id # proc'[p].rcpt ) =>
               /\ \E n \in notifications' :
                    /\ {m \in notifications' : m.user_id = proc'[p].rcpt} = {n}
                    /\ n.object_type = "task"
                    /\ n.object_id = proc'[p].obj
                    /\ ~n.is_read
               /\ proc'[p].su_user = proc'[p].rcpt
               /\ proc'[p].su_msg = [type |-> "task", msg |-> "assign", count |-> 1]
               /\ proc'[p].snap = {c \in Conns : Registered(c, proc'[p].rcpt)}
         /\ AssignTaskReturns(p) =>
               \A c \in proc'[p].snap \ proc'[p].failed :
                 /\ Occurrences(proc'[p].sent, c) = 1
                 /\ Occurrences(inbox'[c], proc'[p].su_msg) >= 1]_vars

\* B holds two connections and both have received the push of the first
\* assignment to B
C14_Witness ==
    \E p \in HttpProcs :
      /\ proc[p].kind = "task" /\ proc[p].act = "assign" /\ proc[p].pc = "done"
      /\ proc[p].actor # proc[p].rcpt
      /\ proc[p].snap = Conns
      /\ proc[p].failed = {}
      /\ \A c \in Conns :
           /\ socket_to_user[c] = proc[p].rcpt
           /\ inbox[c] # <<>>
           /\ inbox[c][Len(inbox[c])] = [type |-> "task", msg |-> "assign", count |-> 1]
           /\ Occurrences(inbox[c], [type |-> "task", msg |-> "assign", count |-> 1]) = 1

\* ---------------------------------------------------------------- C15
\* the rows of the tuple (B, A, "task", T, "assigned" text)
AssignedRows(rows, actor, obj, member) ==
    Matching(rows, MemberUser[member], actor, "task", obj,
             RenderAssign("assigned", "task", obj, actor))

\* C15: when A has assigned task T to a member of user B (not A) and the very
\* next request is the same assign request again, there is still exactly one
\* row of that tuple and its updated_at is strictly later than before.
C15_RepeatedAssignBumps ==
    [][\A p \in HttpProcs, member \in MemberIds, actor \in UserIds, obj \in TaskIds :
         ( /\ events = 1
           /\ [kind |-> "task", obj |-> obj, member |-> member] \in links
           /\ actor # MemberUser[member]
           /\ AssignedRows(notifications, actor, obj, member) # {}
           /\ RequestStep(p)
           /\ proc'[p].kind = "task" /\ proc'[p].act = "assign"
           /\ proc'[p].actor = actor /\ proc'[p].obj = obj
           /\ proc'[p].member = member ) =>
           /\ Cardinality(AssignedRows(notifications', actor, obj, member)) = 1
           /\ \A old \in AssignedRows(notifications, actor, obj, member),
                 new \in AssignedRows(notifications', actor, obj, member) :
                 new.updated_at > old.updated_at]_vars

\* ---------------------------------------------------------------- C16
\* C16: in every state the handlers can be suspended in, whatever calls of
\* connect, disconnect and send_to_user are under way, a socket is in the set of
\* user u in active_connections exactly when socket_to_user maps it to u.
C16_MapsConsistentAtEveryAwait ==
    \A c \in Conns, u \in UserIds : Registered(c, u) <=> socket_to_user[c] = u

\* two removals of one registered socket are both suspended at its close while
\* another handler is suspended in connect or in a send
C16_Witness ==
    \E p, q \in Procs, c \in Conns :
      /\ p # q
      /\ proc[p].pc = "close" /\ proc[p].d_ws = c
      /\ proc[q].pc = "close" /\ proc[q].d_ws = c
      /\ socket_to_user[c] # NoUser
      /\ \E r \in Procs : proc[r].pc \in {"accept", "send"}

\* the state SpecTabs starts in, as a state of Spec
TabsReached ==
    /\ events = NumConns
    /\ active_connections = [u \in UserIds |-> IF u = TabUser THEN 1 ELSE NoSet]
    /\ conn_sets = [i \in Conns |-> IF i = 1 THEN Conns ELSE {}]
    /\ socket_to_user = [c \in Conns |-> TabUser]
    /\ sock = [c \in Conns |-> TabSock]
    /\ inbox = [c \in Conns |-> [i \in 1..(NumConns - c + 1) |-> Welcome(0)]]
    /\ sendq = [c \in Conns |-> <<>>]
    /\ links = {} /\ notifications = {} /\ invites = {}
    /\ now = 1 /\ next_id = 1
    /\ proc = [p \in Procs |-> IF p \in Conns THEN TabProc(p) ELSE IdleProc]
    /\ sweep = IdleSweep

\* ---------------------------------------------------------------- C17
\* the connections of u that are registered and carry frames
LiveConns(u) == {c \in Conns : Registered(c, u) /\ CanSend(sock[c])}

\* requests p and q both pushed to u, q arrived while p was in flight, both
\* have returned and nothing is suspended any more
RacedAndSettled(p, q, u) ==
    /\ p # q
    /\ p \in proc[q].raced
    /\ proc[p].pc = "done" /\ proc[q].pc = "done"
    /\ proc[p].committed /\ proc[q].committed
    /\ proc[p].su_user = u /\ proc[q].su_user = u
    /\ \A r \in Procs : proc[r].pc \notin {"send", "close", "accept", "auth_close"}

\* C17: when two notification-producing requests for recipient u have raced,
\* u holds several live connections and both requests have completed, the last
\* message on each live connection of u carries u's actual unread count.
\* (Taken where it is most favourable: both fan-outs visited the connections in
\* the same order, no send failed and no client frame made a handler push.)
C17_LastPushAuthoritative ==
    \A p, q \in HttpProcs, u \in UserIds :
      ( /\ RacedAndSettled(p, q, u)
        /\ Cardinality(LiveConns(u)) >= 2
        /\ proc[p].failed = {} /\ proc[q].failed = {}
        /\ proc[p].sent = proc[q].sent
        /\ \A c \in Conns : proc[c].pc = "recv" /\ proc[c].queries = 1 ) =>
        \A c \in LiveConns(u) :
          inbox[c][Len(inbox[c])].count = UnreadOf(u)

\* ---------------------------------------------------------------- C18
\* C18: in every reachable state, also while requests are handled concurrently,
\* no two notification rows have the same (user_id, sender_id, object_type,
\* object_id, message).
C18_SingleRowPerTuple ==
    \A n1, n2 \in notifications :
      ( /\ n1.user_id = n2.user_id
        /\ n1.sender_id = n2.sender_id
        /\ n1.object_type = n2.object_type
        /\ n1.object_id = n2.object_id
        /\ n1.message = n2.message ) => n1 = n2

\* an assign request that arrived while another request was in flight found the
\* row of an earlier identical assignment and bumped it
C18_Witness ==
    \E q \in HttpProcs :
      /\ proc[q].kind = "task" /\ proc[q].act = "assign"
      /\ proc[q].committed
      /\ proc[q].raced # {}
      /\ \E n \in AssignedRows(notifications, proc[q].actor, proc[q].obj, proc[q].member) :
           n.updated_at > n.created_at
      /\ Matching(notifications, proc[q].rcpt, proc[q].actor, "task", proc[q].obj,
                  RenderAssign("unassigned", "task", proc[q].obj, proc[q].actor)) # {}

\* ---------------------------------------------------------------- C19
\* this step resumes the disconnect of handler p from its awaited close
ResumesDisconnect(p) == proc[p].pc = "close" /\ proc'[p] # proc[p]

\* ... and the KeyError of a missing element left disconnect
DisconnectRaises(p) ==
    IF proc[p].d_from = "send" THEN proc'[p].su_status = "raised"
    ELSE proc'[p].pc = "raised"

\* C19: every disconnect(c) that was suspended at the close of c, also one of
\* two that overlap, completes without raising and leaves c in neither map and
\* every other connection of the user registered.
C19_ConcurrentRemovalSafe ==
    [][\A p \in Procs, c \in Conns, u \in UserIds :
         (ResumesDisconnect(p) /\ c = proc[p].d_ws /\ u = proc[p].d_user) =>
           /\ ~DisconnectRaises(p)
           /\ ~InRegistry(c)'
           /\ \A d \in Conns \ {c} : Registered(d, u) => Registered(d, u)']_vars

\* ---------------------------------------------------------------- C20
\* a disconnect(c) has completed: c was opened, is closed and is in no map
Disconnected(c) == sock[c].state = "closed" /\ ~InRegistry(c)

\* nothing is delivered on a connection once its disconnect has completed
NoPushAfterDisconnect ==
    \A c \in Conns : Disconnected(c) => inbox'[c] = inbox[c]

\* what a connection receives first is the welcome of a handler
FirstMessageIsWelcome ==
    \A c \in Conns :
      inbox[c] # <<>> =>
        /\ sock[c].subprotocol # NoToken
        /\ inbox[c][1].type = "notifications"
        /\ inbox[c][1].msg = "Hello!"

\* C20: once disconnect(c) has completed nothing more is delivered on c, and a
\* connection receives pushes only after it was admitted and its first
\* message is a welcome.
C20_NoPushAfterLoss ==
    /\ [][NoPushAfterDisconnect]_vars
    /\ []FirstMessageIsWelcome

\* the state SpecCast starts in, as a state of Spec
CastReached ==
    /\ events = NumConns
    /\ active_connections = [u \in UserIds |-> IF u = "u1" THEN 1 ELSE 2]
    /\ conn_sets = [i \in Conns |-> CASE i = 1 -> {1} [] i = 2 -> 2..NumConns [] OTHER -> {}]
    /\ socket_to_user = [c \in Conns |-> CastUser(c)]
    /\ sock = [c \in Conns |-> CastSock(c)]
    /\ inbox = [c \in Conns |-> IF c = 1 THEN <<Welcome(0)>>
                                 ELSE [i \in 1..(NumConns - c + 1) |-> Welcome(0)]]
    /\ sendq = [c \in Conns |-> <<>>]
    /\ links = {} /\ notifications = {} /\ invites = {}
    /\ now = 1 /\ next_id = 1
    /\ proc = [p \in Procs |-> IF p \in Conns THEN CastProc(p) ELSE IdleProc]
    /\ sweep = IdleSweep

\* ---------------------------------------------------------------- C21
\* a broadcast of slot p has ended
BroadcastEnded(p) == proc[p].kind = "broadcast" /\ proc[p].pc \in Ended

\* the sockets that were registered when broadcast p started and are still
\* registered and carrying frames
StillLive(p) ==
    {c \in proc[p].b_start : CanSend(sock[c]) /\ InRegistry(c)}

\* C21: a broadcast ends by returning, also when a send to one user's connection
\* failed; by then it has attempted every connection that was registered at its
\* start and is still there, it has delivered on each such connection, and it
\* has removed no connection it delivered on.
C21_BroadcastReachesEveryone ==
    \A p \in HttpProcs :
      BroadcastEnded(p) =>
        /\ proc[p].pc = "done"
        /\ StillLive(p) \subseteq proc[p].b_sent
        /\ proc[p].b_sent \cap proc[p].b_failed = {}

\* ---------------------------------------------------------------- C22
\* the unread rows of u in a store
UnreadRows(rows, u) == {n \in rows : n.user_id = u /\ n.is_read = FALSE}

\* C22: every call of get_unread_notifications_count(u) returns the number of
\* rows of u with is_read false that the store holds at the time of the call
\* (for a websocket handler and for an invite the store as the step finds it,
\* for an assignment the store as the request has just committed it), and a
\* step of a websocket handler that makes the query changes no notification
\* row and neither registry map.
C22_CounterIsPureAndExact ==
    [][/\ \A c \in Conns, u \in UserIds :
            (proc'[c].queries = proc[c].queries + 1 /\ u = socket_to_user[c]) =>
              /\ proc'[c].pushed = Cardinality(UnreadRows(notifications, u))
              /\ notifications' = notifications
              /\ RegistryUnchanged
       /\ \A p \in HttpProcs :
            (RequestStep(p) /\ proc'[p].pushed # -1) =>
              IF proc'[p].kind = "invite"
              THEN proc'[p].pushed = Cardinality(UnreadRows(notifications, proc'[p].rcpt))
              ELSE proc'[p].pushed = Cardinality(UnreadRows(notifications', proc'[p].rcpt))]_vars

\* a handler has counted 1 for its user while the store holds two rows
C22_Witness ==
    /\ Cardinality(notifications) = 2
    /\ \E c \in Conns :
         /\ proc[c].kind = "ws" /\ proc[c].queries = 1 /\ proc[c].pushed = 1
         /\ Cardinality(UnreadRows(notifications, socket_to_user[c])) = 1

\* the rows that requests of actor about task obj have left for user b
PairRows(rows, actor, b, obj) ==
    {n \in rows : /\ n.user_id = b
                  /\ n.sender_id = actor
                  /\ n.object_type = "task"
                  /\ n.object_id = obj}

UnassignedRows(rows, actor, obj, member) ==
    Matching(rows, MemberUser[member], actor, "task", obj,
             RenderAssign("unassigned", "task", obj, actor))

\* this step is an unassign-task request of slot p that commits a notification
UnassignTaskCommits(p) ==
    /\ RequestStep(p)
    /\ proc'[p].kind = "task"
    /\ proc'[p].act = "unassign"
    /\ proc'[p].committed

\* C23: for a task, an actor A and an assignee B other than A, an unassign that
\* follows an assign leaves exactly two rows for B, one 'assigned to' and one
\* 'unassigned from'; an assign that finds both inserts no row and changes
\* nothing but the updated_at of the 'assigned to' row, which advances; and no
\* sequence of requests leaves more than two rows for the pair.
C23_DedupKeyDistinguishesKinds ==
    [][\A p \in HttpProcs, member \in MemberIds, actor \in UserIds, obj \in TaskIds :
         LET b == MemberUser[member]
             asg == AssignedRows(notifications, actor, obj, member)
             una == UnassignedRows(notifications, actor, obj, member)
             hit == /\ proc'[p].actor = actor
                    /\ proc'[p].member = member
                    /\ proc'[p].obj = obj
         IN  /\ Cardinality(PairRows(notifications', actor, b, obj)) <= 2
             /\ (UnassignTaskCommits(p) /\ hit /\ asg # {}) =>
                  /\ Cardinality(PairRows(notifications', actor, b, obj)) = 2
                  /\ Cardinality(AssignedRows(notifications', actor, obj, member)) = 1
                  /\ Cardinality(UnassignedRows(notifications', actor, obj, member)) = 1
             /\ (AssignTaskCommits(p) /\ hit /\ asg # {} /\ una # {}) =>
                  /\ {n.id : n \in notifications'} = {n.id : n \in notifications}
                  /\ notifications \ asg \subseteq notifications'
                  /\ \A o \in asg :
                       \E n \in notifications' :
                         /\ n.updated_at > o.updated_at
                         /\ n = Bump(o, n.updated_at)]_vars

\* assign, unassign, assign: the task is assigned again, both rows are there
\* and the 'assigned to' row has been refreshed after the other was created
C23_Witness ==
    \E member \in MemberIds, actor \in UserIds, obj \in TaskIds :
      /\ actor # MemberUser[member]
      /\ [kind |-> "task", obj |-> obj, member |-> member] \in links
      /\ Cardinality(PairRows(notifications, actor, MemberUser[member], obj)) = 2
      /\ \E a \in AssignedRows(notifications, actor, obj, member),
            u \in UnassignedRows(notifications, actor, obj, member) :
           /\ a.created_at < u.created_at
           /\ u.created_at < a.updated_at
           /\ ~a.is_read /\ ~u.is_read

\* the state SpecBump starts in, as a state of Spec
BumpReached == StateIs(AfterRead)

\* ---------------------------------------------------------------- C24
\* this step is an assignment request of slot p that commits a notification
NotifyCommits(p) ==
    /\ RequestStep(p)
    /\ proc'[p].kind \in {"task", "event"}
    /\ proc'[p].committed

\* C24: an assignment request that finds the row of its tuple changes only the
\* updated_at of that row (id, user_id, sender_id, object_type, object_id,
\* message, created_at and is_read stay), changes no other row and no user's
\* unread count; every row that enters the store enters it unread.
C24_BumpChangesOnlyRecency ==
    [][/\ \A p \in HttpProcs :
            (NotifyCommits(p) /\ RowsOfRequest(notifications, proc'[p]) # {}) =>
              /\ \A o \in RowsOfRequest(notifications, proc'[p]) :
                   \E n \in notifications' :
                     /\ n = Bump(o, n.updated_at)
                     /\ n.updated_at > o.updated_at
              /\ notifications \ RowsOfRequest(notifications, proc'[p]) \subseteq notifications'
              /\ Cardinality(notifications') = Cardinality(notifications)
              /\ \A u \in UserIds : UnreadOf(u)' = UnreadOf(u)
       /\ \A n \in notifications' :
            (\A o \in notifications : o.id # n.id) => n.is_read = FALSE]_vars

\* unassign and assign have followed the read: the task is assigned again and
\* the 'assigned to' row has been refreshed by the last request and is still read
C24_Witness ==
    /\ events = 2
    /\ \E member \in MemberIds, actor \in UserIds, obj \in TaskIds :
         /\ [kind |-> "task", obj |-> obj, member |-> member] \in links
         /\ \E a \in AssignedRows(notifications, actor, obj, member),
               u \in UnassignedRows(notifications, actor, obj, member) :
              /\ a.is_read
              /\ a.updated_at = now - 1
              /\ u.created_at < a.updated_at
              /\ UnreadOf(MemberUser[member]) = 1

\* ---------------------------------------------------------------- C25
\* this step is the commit of a run of delete_old_notifications
SweepCommits == sweep.pc = "selected" /\ sweep'.pc = "idle"

ValidAndPresent(c) ==
    /\ sock[c].state # "new"
    /\ ~BadCredential(c)
    /\ ~sock[c].gone

\* the call of connect for c has raised: its accept did
ConnectRaised(c) == proc[c].pc = "raised" /\ proc[c].queries = 0

\* C26: a connection with a valid credential whose peer stays is in both maps
\* while connect awaits its handshake, whatever send_to_user calls for its user
\* run meanwhile; its connect does not raise; and when its handler first waits
\* for a frame it is registered in both maps and has received a welcome.
C26_AdmissionRobustToRacingPush ==
    \A c \in Conns :
      ValidAndPresent(c) =>
        /\ proc[c].pc = "accept" =>
             /\ Registered(c, CredUser(c))
             /\ socket_to_user[c] = CredUser(c)
        /\ ~ConnectRaised(c)
        /\ (proc[c].pc = "recv" /\ proc[c].queries = 1) =>
             /\ Registered(c, CredUser(c))
             /\ socket_to_user[c] = CredUser(c)
             /\ \E i \in DOMAIN inbox[c] : inbox[c][i].msg = "Hello!"

\* ---------------------------------------------------------------- C27
\* a message is delivered on connection c in this step
DeliveredOn(c) == Len(inbox'[c]) = Len(inbox[c]) + 1

\* C27: a connection is in the connection set of at most one user, the user its
\* credential names; every message delivered on a connection is the message of
\* a send_to_user call for that user, and when the call is made by a request
\* it is the call for the request's recipient, carrying the count computed
\* for that recipient.
C27_PerUserIsolation ==
    /\ [](\A c \in Conns, u \in UserIds :
            Registered(c, u) => (~BadCredential(c) /\ u = CredUser(c)))
    /\ [][\A c \in Conns :
            DeliveredOn(c) =>
              \E p \in Procs :
                /\ proc[p].pc = "send"
                /\ proc[p].su_cur = c
                /\ proc[p].su_user = CredUser(c)
                /\ inbox'[c] = Append(inbox[c], proc[p].su_msg)
                /\ p \in HttpProcs => proc[p].rcpt = CredUser(c)
                /\ p \in Conns => CredUser(p) = CredUser(c)]_vars

\* both users are connected and a task push has reached the one it was for and
\* not the other
C27_Witness ==
    \E c, d \in Conns :
      /\ Registered(c, "u1") /\ Registered(d, "u2")
      /\ \E i \in DOMAIN inbox[d] : inbox[d][i].type = "task"
      /\ inbox[c] # <<>>
      /\ \A i \in DOMAIN inbox[c] : inbox[c][i].type # "task"

\* ---------------------------------------------------------------- C28
\* this step is a request of slot p that calls send_to_user for a user who has
\* no entry in active_connections
PushesOffline(p) ==
    /\ RequestStep(p)
    /\ proc'[p].pushed # -1
    /\ \A u \in UserIds : u = proc'[p].rcpt => active_connections[u] = NoSet

\* the rows the request of record r has written or is about to commit
RowsWritten(rows, r) ==
    IF r.kind = "invite" THEN rows \cap {r.pend} ELSE RowsOfRequest(rows, r)

\* C28: a request whose send_to_user finds no entry for its recipient delivers
\* nothing, queues no send, does not raise and leaves both maps as they are
\* (no entry for the recipient appears); the request goes on to its end in the
\* same step and, unless the store rejects its commit, the notification row it
\* has written (a request of the recipient itself writes none) is committed; and the first count a handler of a newly admitted connection
\* pushes is the number of unread rows its user has in the store then.
C28_OfflinePushIsNoOp ==
    [][/\ \A p \in HttpProcs :
            PushesOffline(p) =>
              /\ inbox' = inbox
              /\ sendq' = sendq
              /\ RegistryUnchanged
              /\ proc'[p].snap = {} /\ proc'[p].sent = <<>>
              /\ proc'[p].pc \in {"done", "failed"}
              /\ (proc'[p].pc = "done" /\ proc'[p].actor # proc'[p].rcpt) =>
                   Cardinality(RowsWritten(notifications', proc'[p])) = 1
       /\ \A c \in Conns :
            (proc[c].pc = "accept" /\ proc'[c].queries = 1) =>
              proc'[c].su_msg.count =
                  Cardinality(UnreadRows(notifications, socket_to_user'[c]))]_vars

\* a request has pushed to u2 while u2 had no connection and returned; u2 has
\* connected since and the welcome reports the row of that request
C28_Witness ==
    \E p \in HttpProcs, c \in Conns :
      /\ proc[p].kind = "task" /\ proc[p].rcpt = "u2" /\ proc[p].pc = "done"
      /\ proc[p].committed /\ proc[p].pushed = 1 /\ proc[p].snap = {}
      /\ Registered(c, "u2")
      /\ inbox[c] = <<Welcome(1)>>
      /\ \A d \in Conns \ {c} : sock[d].state = "new"

\* ---------------------------------------------------------------- C29
\* this step is a respond request of slot p for a notification id under which
\* the store holds no row of the requesting user
RespondsToForeign(p) ==
    /\ RequestStep(p)
    /\ proc'[p].kind = "respond"
    /\ ~\E n \in notifications : n.id = proc'[p].obj[2] /\ n.user_id = proc'[p].actor

\* C29: a respond request for a notification that belongs to another user, or
\* that does not exist, is rejected and writes nothing: every row, every user's
\* unread count and the clock are as before.
C29_OnlyRecipientChangesReadState ==
    [][\A p \in HttpProcs :
         RespondsToForeign(p) =>
           /\ proc'[p].pc = "rejected"
           /\ notifications' = notifications
           /\ now' = now
           /\ \A u \in UserIds : UnreadOf(u)' = UnreadOf(u)]_vars

\* a user has asked to mark another user's unread notification as read and
\* was rejected; the row is still unread
C29_Witness ==
    \E p \in HttpProcs, n \in notifications :
      /\ proc[p].kind = "respond" /\ proc[p].act = "read" /\ proc[p].pc = "rejected"
      /\ n.id = proc[p].obj[2]
      /\ n.user_id # proc[p].actor
      /\ ~n.is_read
      /\ n.updated_at = n.created_at

\* ---------------------------------------------------------------- C30
\* handler c starts an iteration of its loop in this step
StartsIteration(c) == proc'[c].queries = proc[c].queries + 1

\* handler c is in the except branch of websocket_endpoint or has ended
OutOfLoop(r) == r.pc \in Ended \/ (r.pc = "close" /\ r.d_from = "handler")

\* handler c leaves its loop in this step
LeavesLoop(c) ==
    /\ proc'[c].kind = "ws"
    /\ ~OutOfLoop(proc[c])
    /\ OutOfLoop(proc'[c])

\* the send_to_user of handler c's last iteration is over
RefreshOver(c) ==
    /\ proc[c].kind = "ws"
    /\ proc[c].queries >= 1
    /\ proc[c].pc = "recv" \/ OutOfLoop(proc[c])

\* C30: every iteration of the receive loop of a connection of user u computes
\* u's unread count and calls send_to_user for a "notifications" message with
\* it on a snapshot of all of u's connections; when that call is over every
\* connection of the snapshot that is still registered and carrying frames has
\* received the message; a handler leaves its loop only when its own
\* connection has stopped carrying frames (receive error or disconnect), and
\* once a handler that entered the loop has ended its connection is in
\* neither map.
C30_CountRefreshOnEveryFrame ==
    /\ [][\A c \in Conns :
            /\ StartsIteration(c) =>
                 /\ proc'[c].su_msg =
                      [type |-> "notifications", msg |-> "Hello!",
                       count |-> Cardinality(UnreadRows(notifications, socket_to_user[c]))]
                 /\ proc'[c].su_user = socket_to_user[c]
                 /\ proc'[c].snap = {d \in Conns : Registered(d, socket_to_user[c])}
            /\ LeavesLoop(c) => ~CanSend(sock[c])]_vars
    /\ [](\A c \in Conns :
            /\ RefreshOver(c) =>
                 \A d \in proc[c].snap :
                   (CanSend(sock[d]) /\ Registered(d, proc[c].su_user)) =>
                     \E i \in DOMAIN proc[c].sent : proc[c].sent[i] = d
            /\ (RefreshOver(c) /\ proc[c].pc \in Ended) => ~InRegistry(c))

====
